---------------------------- MODULE Spec2Model ----------------------------
(***************************************************************************)
(* Model of src/convert.js: the Contentful-export to Markdown converter.   *)
(*                                                                         *)
(* JavaScript strings are modelled as sequences of one-character strings,  *)
(* so that trim, startsWith, the slug regexps and line counting are        *)
(* computed character by character.  JavaScript objects are records whose  *)
(* DOMAIN is the set of properties present; a locale map {'en-US': v} is   *)
(* the function Loc(v).  A call that may throw returns [ok, s]: ok = FALSE *)
(* stands for the TypeError the JavaScript raises.                         *)
(***************************************************************************)
EXTENDS Integers, Sequences, FiniteSets, TLC

VARIABLES
    data,       \* the export snapshot: [entries, assets]            (line 6)
    fsDirs,     \* output paths that are directories: writeFileSync throws there
    pc,         \* position of the script
    pages,      \* data.entries filtered on content type 'page'     (line 111)
    index,      \* forEach index of the current page (0-based)      (line 115)
    refIdx,     \* number of content references of the page already processed
    markdown,   \* the page's markdown accumulator                   (line 121)
    files,      \* the output directory: filename -> content
    log,        \* console lines, in order
    writes,     \* history of fs.writeFileSync calls that returned
    events,     \* history of the steps taken, in order
    node,       \* rich-text node handed to the renderer
    out,        \* result of processNode(node)
    top         \* result of richTextToMarkdown(node)

vars == <<data, fsDirs, pc, pages, index, refIdx, markdown, files, log,
          writes, events, node, out, top>>

---------------------------------------------------------------------------
(* Bounds of the model. *)

MaxMarks == 2
MaxRows == 2
MaxCells == 2
MaxChildren == 2
MaxAssets == 2
MaxPages == 2
MaxRefs == 2

---------------------------------------------------------------------------
(* Strings. *)

NL == "\n"

\* The backtick character (U+0060), which a TLA+ string literal cannot hold.
BT == "BACKTICK"

\* ECMAScript WhiteSpace: TAB, VT, FF, SP, NBSP, ZWNBSP (BOM) and the other
\* space separators.  A character that a string literal cannot hold is
\* named by its code point.
WhiteSpaceChars ==
    {"\t", "", "\f", " ", " ", "﻿", " ",
     "U+2000", "U+2001", "U+2002", "U+2003", "U+2004", "U+2005", "U+2006",
     "U+2007", "U+2008", "U+2009", "U+200A", "U+202F", "U+205F", "U+3000"}

\* ECMAScript LineTerminator: LF, CR, LS (U+2028), PS (U+2029).
LineTerminators == {NL, "\r", "U+2028", "U+2029"}

\* What String.prototype.trim strips: white space and line terminators.
Whitespace == WhiteSpaceChars \cup LineTerminators

Digits == {"0", "1", "2", "3", "4", "5", "6", "7", "8", "9"}

LowerCase == {"a", "b", "c", "d", "e", "f", "g", "h", "i", "j", "k", "l", "m",
              "n", "o", "p", "q", "r", "s", "t", "u", "v", "w", "x", "y", "z"}

\* All sequences over S of length at most n.
SeqsUpTo(S, n) == UNION {[1..k -> S] : k \in 0..n}

\* Array.prototype.join on an array of strings.
RECURSIVE join(_, _)
join(strs, sep) ==
    IF Len(strs) = 0 THEN <<>>
    ELSE IF Len(strs) = 1 THEN strs[1]
    ELSE strs[1] \o sep \o join(Tail(strs), sep)

\* String.prototype.trim: strips leading and trailing white space.
RECURSIVE trimStart(_)
trimStart(s) ==
    IF Len(s) > 0 /\ s[1] \in Whitespace THEN trimStart(Tail(s)) ELSE s

RECURSIVE trimEnd(_)
trimEnd(s) ==
    IF Len(s) > 0 /\ s[Len(s)] \in Whitespace
    THEN trimEnd(SubSeq(s, 1, Len(s) - 1)) ELSE s

trim(s) == trimEnd(trimStart(s))

\* String.prototype.startsWith.
startsWith(s, prefix) ==
    Len(s) >= Len(prefix) /\ SubSeq(s, 1, Len(prefix)) = prefix

\* Number of occurrences of character c in s.
RECURSIVE countChar(_, _)
countChar(s, c) ==
    IF Len(s) = 0 THEN 0
    ELSE (IF s[1] = c THEN 1 ELSE 0) + countChar(Tail(s), c)

\* Decimal rendering of a small natural number (the template literal ${i + 1}).
RECURSIVE numToStr(_)
numToStr(n) ==
    LET d == <<"0", "1", "2", "3", "4", "5", "6", "7", "8", "9">>
    IN  IF n < 10 THEN <<d[n + 1]>> ELSE numToStr(n \div 10) \o <<d[(n % 10) + 1]>>

---------------------------------------------------------------------------
(* JavaScript values. *)

\* A locale-keyed value {'en-US': v}.
Loc(v) == [l \in {"en-US"} |-> v]

\* A locale map without the 'en-US' key: reading ['en-US'] gives undefined.
NoLoc == [l \in {"de-DE"} |-> <<>>]

Has(obj, prop) == prop \in DOMAIN obj

\* null / undefined in a child array.
Null == [isNull |-> TRUE]

IsNull(n) == Has(n, "isNull")

Ok(s) == [ok |-> TRUE, s |-> s]

Throw == [ok |-> FALSE, s |-> <<>>]

\* Helper to find asset by ID: the first asset with that id, or Null.
RECURSIVE findIn(_, _, _)
findIn(list, id, i) ==
    IF i > Len(list) THEN Null
    ELSE IF list[i].sys.id = id THEN list[i]
    ELSE findIn(list, id, i + 1)

findAsset(id) == findIn(data.assets, id, 1)

findEntry(id) == findIn(data.entries, id, 1)

---------------------------------------------------------------------------
(* Convert rich text to markdown: processNode and processTable. *)

RECURSIVE processNode(_)

\* node.content.map(processNode): the children's results, in order.
renderAll(content) == [i \in 1..Len(content) |-> processNode(content[i])]

AllOk(rs) == \A i \in 1..Len(rs) : rs[i].ok

Strs(rs) == [i \in 1..Len(rs) |-> rs[i].s]

\* node.content.map(processNode).join(sep); reading .map of an absent
\* content raises a TypeError, and so does a child that raises.
mapJoin(n, sep) ==
    IF ~Has(n, "content") THEN Throw
    ELSE LET rs == renderAll(n.content)
         IN  IF AllOk(rs) THEN Ok(join(Strs(rs), sep)) ELSE Throw

\* node.content.map((item, i) => prefix(i) + processNode(item)).join('\n')
\* with prefix '- ' (ordered = FALSE) or ${i + 1} + '. ' (ordered = TRUE).
listItems(n, ordered) ==
    IF ~Has(n, "content") THEN Throw
    ELSE LET rs == renderAll(n.content)
             pre(i) == IF ordered THEN numToStr(i) \o <<".", " ">>
                       ELSE <<"-", " ">>
         IN  IF AllOk(rs)
             THEN Ok(join([i \in 1..Len(rs) |-> pre(i) \o rs[i].s], <<NL>>))
             ELSE Throw

\* One mark applied to the text so far (the forEach body).
applyMark(text, mark) ==
    LET t1 == IF mark.type = "bold" THEN <<"*", "*">> \o text \o <<"*", "*">>
              ELSE text
    IN  IF mark.type = "code" THEN <<BT>> \o t1 \o <<BT>> ELSE t1

\* Mutant of applyMarks: the marks applied last to first.
RECURSIVE applyMarksReversed(_, _)
applyMarksReversed(text, marks) ==
    IF Len(marks) = 0 THEN text
    ELSE applyMark(applyMarksReversed(text, Tail(marks)), marks[1])

\* node.marks.forEach(...): the marks applied in the array's order.
RECURSIVE applyMarks(_, _)
applyMarks(text, marks) ==
    IF Len(marks) = 0 THEN text
    ELSE applyMarks(applyMark(text, marks[1]), Tail(marks))

textNode(n) ==
    IF Has(n, "marks") THEN Ok(applyMarks(n.value, n.marks)) ELSE Ok(n.value)

\* Mutant of assetUrl: any URL with a leading slash is taken as protocol-relative.
assetUrlAnySlash(url) ==
    IF startsWith(url, <<"/">>) THEN <<"h", "t", "t", "p", "s", ":">> \o url
    ELSE url

\* url.startsWith('//') ? 'https:' + url : url
assetUrl(url) ==
    IF startsWith(url, <<"/", "/">>) THEN <<"h", "t", "t", "p", "s", ":">> \o url
    ELSE url

embeddedAsset(n) ==
    LET asset == findAsset(n.data.target.sys.id)
    IN  IF ~IsNull(asset) /\ Has(asset.fields, "file")
        THEN IF ~Has(asset.fields.file, "en-US") THEN Throw
             ELSE LET url == asset.fields.file["en-US"].url
                      title == IF Has(asset.fields, "title")
                               THEN asset.fields.title["en-US"] ELSE <<>>
                  IN  Ok(<<NL, NL, "!", "[">> \o title \o <<"]", "(">>
                         \o assetUrl(url) \o <<")", NL, NL>>)
        ELSE Ok(<<>>)

hyperlink(n) ==
    LET linkText == mapJoin(n, <<>>)
    IN  IF linkText.ok
        THEN Ok(<<"[">> \o linkText.s \o <<"]", "(">> \o n.data.uri \o <<")">>)
        ELSE Throw

\* cell.content.map(processNode).join('').trim()
cellText(cell) ==
    IF IsNull(cell) THEN Throw
    ELSE LET r == mapJoin(cell, <<>>)
         IN  IF r.ok THEN Ok(trim(r.s)) ELSE Throw

\* '| ' + cells.join(' | ') + ' |\n'
rowLine(cells) == <<"|", " ">> \o join(cells, <<" ", "|", " ">>) \o <<" ", "|", NL>>

\* '| ' + cells.map(() => '---').join(' | ') + ' |\n'
separatorLine(cells) ==
    rowLine([i \in 1..Len(cells) |-> <<"-", "-", "-">>])

\* Whether the separator line follows the row with this forEach index.
separatorAfter(rowIndex) == rowIndex = 0

\* The forEach body of processTable for one row: the text it appends.
tableRow(row, rowIndex) ==
    IF IsNull(row) \/ ~Has(row, "content") THEN Throw
    ELSE LET rs == [i \in 1..Len(row.content) |-> cellText(row.content[i])]
         IN  IF ~AllOk(rs) THEN Throw
             ELSE Ok(rowLine(Strs(rs)) \o
                     (IF separatorAfter(rowIndex) THEN separatorLine(Strs(rs))
                      ELSE <<>>))

processTable(tableNode) ==
    IF ~Has(tableNode, "content") THEN Throw
    ELSE LET rows == tableNode.content
             rs == [i \in 1..Len(rows) |-> tableRow(rows[i], i - 1)]
         IN  IF AllOk(rs) THEN Ok(join(Strs(rs), <<>>)) ELSE Throw

tableNodeText(n) ==
    LET t == processTable(n)
    IN  IF t.ok THEN Ok(<<NL, NL>> \o t.s \o <<NL, NL>>) ELSE Throw

headingNode(n, prefix) ==
    LET r == mapJoin(n, <<>>)
    IN  IF r.ok THEN Ok(prefix \o r.s) ELSE Throw

defaultNode(n) == IF Has(n, "content") THEN mapJoin(n, <<>>) ELSE Ok(<<>>)

processNode(n) ==
    IF IsNull(n) THEN Ok(<<>>)
    ELSE CASE n.nodeType = "document" -> mapJoin(n, <<NL, NL>>)
           [] n.nodeType = "paragraph" -> mapJoin(n, <<>>)
           [] n.nodeType = "heading-2" -> headingNode(n, <<"#", "#", " ">>)
           [] n.nodeType = "heading-3" -> headingNode(n, <<"#", "#", "#", " ">>)
           [] n.nodeType = "unordered-list" -> listItems(n, FALSE)
           [] n.nodeType = "ordered-list" -> listItems(n, TRUE)
           [] n.nodeType = "list-item" -> mapJoin(n, <<>>)
           [] n.nodeType = "hyperlink" -> hyperlink(n)
           [] n.nodeType = "embedded-asset-block" -> embeddedAsset(n)
           [] n.nodeType = "text" -> textNode(n)
           [] n.nodeType = "table" -> tableNodeText(n)
           [] OTHER -> defaultNode(n)

richTextToMarkdown(content) ==
    IF IsNull(content) \/ ~Has(content, "content") THEN Ok(<<>>)
    ELSE processNode(content)

---------------------------------------------------------------------------
(* Rich-text nodes and assets handed to the renderer. *)

Text(v, marks) == [nodeType |-> "text", value |-> v, marks |-> marks]

TextPlain(v) == [nodeType |-> "text", value |-> v]

Mark(t) == [type |-> t]

Container(k, c) == [nodeType |-> k, content |-> c]

\* A node without the content property.
Bare(k) == [nodeType |-> k]

Link(c, uri) == [nodeType |-> "hyperlink", content |-> c, data |-> [uri |-> uri]]

LinkBare(uri) == [nodeType |-> "hyperlink", data |-> [uri |-> uri]]

AssetBlock(id) ==
    [nodeType |-> "embedded-asset-block",
     data |-> [target |-> [sys |-> [id |-> id]]]]

Asset(id, fields) == [sys |-> [id |-> id], fields |-> fields]

UrlRelative == <<"/", "/", "i", ".", "c">>

UrlAbsolute == <<"h", ":", "/", "/", "i">>

UrlPath == <<"/", "i">>

Urls == {UrlRelative, UrlAbsolute, UrlPath}

AssetTitle == <<"t">>

AssetFields ==
    {[title |-> Loc(AssetTitle)]}
    \cup {[file |-> Loc([url |-> u])] : u \in Urls}
    \cup {[file |-> Loc([url |-> u]), title |-> Loc(AssetTitle)] : u \in Urls}
    \cup {[file |-> NoLoc]}

AssetIds == {"a1", "a2"}

AssetRecs == {Asset(id, f) : id \in AssetIds, f \in AssetFields}

AssetLists == SeqsUpTo(AssetRecs, MaxAssets)

AssetNodes == {AssetBlock(id) : id \in AssetIds}

\* The assets of the snapshots whose input is not an asset node.
FixedAssets ==
    <<Asset("a1", [file |-> Loc([url |-> UrlRelative]), title |-> Loc(AssetTitle)]),
      Asset("a2", [title |-> Loc(AssetTitle)])>>

MarkTypes == {"bold", "code", "italic"}

Values == {<<"v">>, <<>>, <<"a", " ", "b">>}

TextNodes ==
    {Text(v, m) : v \in Values, m \in SeqsUpTo({Mark(t) : t \in MarkTypes}, MaxMarks)}
    \cup {TextPlain(v) : v \in Values}

CellPadded ==
    Container("table-cell",
        <<Container("paragraph", <<TextPlain(<<"\t", " ", "a", " ", "\r">>)>>)>>)

CellTwoLines == Container("table-cell", <<Container("paragraph", <<TextPlain(<<"c", NL, "d">>)>>)>>)

Rows == {Container("table-row", c) : c \in SeqsUpTo({CellPadded, CellTwoLines}, MaxCells)}

TableNodes == {Container("table", r) : r \in SeqsUpTo(Rows, MaxRows)}

MalformedTables ==
    {Bare("table"),
     Container("table", <<Null>>),
     Container("table", <<Bare("table-row")>>),
     Container("table", <<Container("table-row", <<Null>>)>>),
     Container("table", <<Container("table-row", <<Bare("table-cell")>>)>>)}

Leaves == {TextPlain(<<"x">>), Null, Bare("hr")}

ContainerKinds ==
    {"document", "paragraph", "heading-2", "heading-3", "unordered-list",
     "ordered-list", "list-item", "blockquote"}

Uri == <<"u">>

Level1 ==
    {Container(k, c) : k \in ContainerKinds, c \in SeqsUpTo(Leaves, MaxChildren)}
    \cup {Bare(k) : k \in ContainerKinds}
    \cup {Link(c, Uri) : c \in SeqsUpTo(Leaves, MaxChildren)}
    \cup {LinkBare(Uri)}

Level2 ==
    {Container(k, <<x, y>>) :
        k \in {"document", "unordered-list", "ordered-list"},
        x \in Level1 \cup MalformedTables \cup AssetNodes,
        y \in Leaves}

TreeNodes == Leaves \cup Level1 \cup Level2 \cup MalformedTables

---------------------------------------------------------------------------
(* The renderer applied to one node. *)

Pending == [pending |-> TRUE]

RenderInit ==
    /\ \/ /\ node \in AssetNodes
          /\ \E a \in AssetLists : data = [entries |-> <<>>, assets |-> a]
       \/ /\ node \in TextNodes \cup TableNodes \cup TreeNodes
          /\ data = [entries |-> <<>>, assets |-> FixedAssets]
    /\ out = Pending
    /\ top = Pending
    /\ pc = "render"
    /\ fsDirs = {}
    /\ pages = <<>>
    /\ index = 0
    /\ refIdx = 0
    /\ markdown = <<>>
    /\ files = <<>>
    /\ log = <<>>
    /\ writes = <<>>
    /\ events = <<>>

Render ==
    /\ pc = "render"
    /\ out' = processNode(node)
    /\ top' = richTextToMarkdown(node)
    /\ pc' = "rendered"
    /\ UNCHANGED <<data, fsDirs, pages, index, refIdx, markdown, files, log,
                   writes, events, node>>

RenderNext == Render

RenderSpec == RenderInit /\ [][RenderNext]_vars

---------------------------------------------------------------------------
(* The snapshots handed to the page loop. *)

Entry(id, type, fields) ==
    [sys |-> [id |-> id, contentType |-> [sys |-> [id |-> type]]],
     fields |-> fields]

\* An entry without the fields property.
EntryNoFields(id, type) ==
    [sys |-> [id |-> id, contentType |-> [sys |-> [id |-> type]]]]

Ref(id) == [sys |-> [id |-> id]]

\* A content reference without the sys property.
RefNoSys == [linkType |-> "Entry"]

Doc(c) == Container("document", c)

Blocks ==
    <<Entry("b1", "contentBlock",
            [title |-> Loc(<<"T">>),
             content |-> Loc(Doc(<<Container("paragraph", <<TextPlain(<<"x">>)>>)>>))]),
      Entry("b2", "contentBlock",
            [content |-> Loc(Doc(<<Container("heading-2",
                                     <<Text(<<"y">>, <<Mark("bold")>>)>>),
                                   AssetBlock("a1")>>))]),
      Entry("bx", "contentBlock",
            [title |-> Loc(<<"X">>),
             content |-> Loc(Doc(<<Bare("paragraph")>>))]),
      EntryNoFields("bn", "contentBlock")>>

RefChoices == {Ref("b1"), Ref("b2"), Ref("bx"), Ref("bn"), Ref("zz"), RefNoSys}

\* "cased" is a title of non-ASCII cased characters: capital E acute, a,
\* the Kelvin sign and the dotted capital I.
TitleOpts == {"none", "A", "a!", "cased", "noloc"}

TitleField(t) ==
    CASE t = "A" -> Loc(<<"A">>)
      [] t = "a!" -> Loc(<<"a", "!">>)
      [] t = "cased" -> Loc(<<"É", "a", "U+212A", "U+0130">>)
      [] OTHER -> NoLoc

Description == <<"D">>

\* The fields of a page of shape [t, d, c]: title option, description
\* option and content [has, refs].
PageFields(shape) ==
    [f \in {"slug"}
          \cup (IF shape.t = "none" THEN {} ELSE {"title"})
          \cup (IF shape.d = "none" THEN {} ELSE {"description"})
          \cup (IF shape.c.has THEN {"content"} ELSE {}) |->
        CASE f = "title" -> TitleField(shape.t)
          [] f = "description" -> Loc(Description)
          [] f = "content" -> Loc(shape.c.refs)
          [] OTHER -> Loc(<<"s">>)]

PageIds == <<"p1", "p2", "p3", "p4">>

MakePage(i, shape) ==
    IF shape.t = "nofields" THEN EntryNoFields(PageIds[i], "page")
    ELSE Entry(PageIds[i], "page", PageFields(shape))

NoContent == [has |-> FALSE, refs |-> <<>>]

Refs(r) == [has |-> TRUE, refs |-> r]

NoFieldsShape == [t |-> "nofields", d |-> "none", c |-> NoContent]

\* Pages of the batch snapshots: every title option, at most one reference.
SimpleShapes ==
    {[t |-> t, d |-> "none", c |-> c] :
        t \in TitleOpts,
        c \in {NoContent, Refs(<<Ref("b1")>>), Refs(<<Ref("bx")>>), Refs(<<Ref("zz")>>)}}
    \cup {NoFieldsShape}

\* Pages of the one-page snapshots: every sequence of references.
RichShapes ==
    {[t |-> t, d |-> d, c |-> Refs(r)] :
        t \in {"none", "A"}, d \in {"none", "D"}, r \in SeqsUpTo(RefChoices, MaxRefs)}

Snapshot(shapes) ==
    [entries |-> [i \in 1..Len(shapes) |-> MakePage(i, shapes[i])] \o Blocks,
     assets |-> FixedAssets]

Snapshots ==
    {Snapshot(shapes) : shapes \in SeqsUpTo(SimpleShapes, MaxPages)}
    \cup {Snapshot(<<shape>>) : shape \in RichShapes}

MdxA == <<"a", ".", "m", "d", "x">>

---------------------------------------------------------------------------
(* Filename derivation. *)

UpperSeq == <<"A", "B", "C", "D", "E", "F", "G", "H", "I", "J", "K", "L", "M",
              "N", "O", "P", "Q", "R", "S", "T", "U", "V", "W", "X", "Y", "Z">>

LowerSeq == <<"a", "b", "c", "d", "e", "f", "g", "h", "i", "j", "k", "l", "m",
              "n", "o", "p", "q", "r", "s", "t", "u", "v", "w", "x", "y", "z">>

IsAlnum(c) == c \in LowerCase \cup Digits

\* c.toLowerCase().replace(/[^a-z0-9]+/g, '-') of the one-character string c.
\* The characters whose lower case holds a character of a-z are A-Z, the
\* Kelvin sign U+212A (k) and the dotted capital I U+0130 (i followed by the
\* combining dot U+0307, which is replaced); the lower case of every other
\* character outside a-z0-9 lies outside a-z0-9 and is replaced whole.
lowerReplaceChar(c) ==
    IF \E i \in 1..26 : UpperSeq[i] = c
    THEN <<LowerSeq[CHOOSE i \in 1..26 : UpperSeq[i] = c]>>
    ELSE IF c = "U+212A" THEN <<"k">>
    ELSE IF c = "U+0130" THEN <<"i", "-">>
    ELSE IF IsAlnum(c) THEN <<c>>
    ELSE <<"-">>

\* The same of every character of s in turn; toLowerCase maps the characters
\* one by one, and the one mapping that looks at the neighbours, capital
\* sigma, gives a small or a final sigma, both replaced.
RECURSIVE lowerReplaceEach(_)
lowerReplaceEach(s) ==
    IF Len(s) = 0 THEN <<>>
    ELSE lowerReplaceChar(s[1]) \o lowerReplaceEach(Tail(s))

\* .replace(/[^a-z0-9]+/g, '-'): each run of other characters becomes one
\* hyphen; the hyphens of adjacent replaced characters are one run.
RECURSIVE replaceRuns(_, _)
replaceRuns(s, inRun) ==
    IF Len(s) = 0 THEN <<>>
    ELSE IF IsAlnum(s[1]) THEN <<s[1]>> \o replaceRuns(Tail(s), FALSE)
    ELSE IF inRun THEN replaceRuns(Tail(s), TRUE)
    ELSE <<"-">> \o replaceRuns(Tail(s), TRUE)

\* .replace(/^-|-$/g, ''): one leading and one trailing hyphen removed.
stripHyphens(s) ==
    LET s1 == IF Len(s) > 0 /\ s[1] = "-" THEN Tail(s) ELSE s
    IN  IF Len(s1) > 0 /\ s1[Len(s1)] = "-" THEN SubSeq(s1, 1, Len(s1) - 1) ELSE s1

makeFilename(title) ==
    stripHyphens(replaceRuns(lowerReplaceEach(title), FALSE)) \o <<".", "m", "d", "x">>

---------------------------------------------------------------------------
(* The page loop. *)

Untitled == <<"U", "n", "t", "i", "t", "l", "e", "d">>

Undefined == <<"u", "n", "d", "e", "f", "i", "n", "e", "d">>

CurPage == pages[index + 1]

\* fields.title ? fields.title['en-US'] : 'Untitled'; undefined when the
\* title has no 'en-US' value.
TitleDefined(page) ==
    ~Has(page.fields, "title") \/ Has(page.fields.title, "en-US")

PageTitle(page) ==
    IF ~Has(page.fields, "title") THEN Untitled
    ELSE IF Has(page.fields.title, "en-US") THEN page.fields.title["en-US"]
    ELSE Undefined

PageDescription(page) ==
    IF Has(page.fields, "description") THEN page.fields.description["en-US"]
    ELSE <<>>

\* Front matter, level-1 heading and description (lines 121-131).
pageHeader(title, description) ==
    <<"-", "-", "-", NL, "t", "i", "t", "l", "e", ":", " ", "\"">> \o title
        \o <<"\"", NL>>
    \o (IF Len(description) > 0
        THEN <<"d", "e", "s", "c", "r", "i", "p", "t", "i", "o", "n", ":", " ", "\"">>
             \o description \o <<"\"", NL>>
        ELSE <<>>)
    \o <<"-", "-", "-", NL, NL>>
    \o <<"#", " ">> \o title \o <<NL, NL>>
    \o (IF Len(description) > 0 THEN description \o <<NL, NL>> ELSE <<>>)

\* fields.content && fields.content['en-US']
ContentRefs(page) ==
    IF Has(page.fields, "content") /\ Has(page.fields.content, "en-US")
    THEN page.fields.content["en-US"]
    ELSE <<>>

\* Mutant of blockSection: block.fields is read without the check that the
\* block was found, so a missing entry raises.
blockSectionStrict(ref) ==
    IF ~Has(ref, "sys") THEN Throw
    ELSE LET block == findEntry(ref.sys.id)
         IN  IF IsNull(block) THEN Throw
             ELSE IF Has(block, "fields")
             THEN LET bf == block.fields
                      heading ==
                          IF Has(bf, "title") /\ Has(bf.title, "en-US")
                             /\ Len(bf.title["en-US"]) > 0
                          THEN <<"#", "#", "#", " ">> \o bf.title["en-US"] \o <<NL, NL>>
                          ELSE <<>>
                      body ==
                          IF Has(bf, "content") /\ Has(bf.content, "en-US")
                          THEN richTextToMarkdown(bf.content["en-US"])
                          ELSE Ok(<<>>)
                      hasBody == Has(bf, "content") /\ Has(bf.content, "en-US")
                  IN  IF ~body.ok THEN Throw
                      ELSE Ok(heading \o
                              (IF hasBody THEN body.s \o <<NL, NL>> ELSE <<>>))
             ELSE Ok(<<>>)

\* The text one content reference appends to markdown (lines 138-149), or Throw.
blockSection(ref) ==
    IF ~Has(ref, "sys") THEN Throw
    ELSE LET block == findEntry(ref.sys.id)
         IN  IF ~IsNull(block) /\ Has(block, "fields")
             THEN LET bf == block.fields
                      heading ==
                          IF Has(bf, "title") /\ Has(bf.title, "en-US")
                             /\ Len(bf.title["en-US"]) > 0
                          THEN <<"#", "#", "#", " ">> \o bf.title["en-US"] \o <<NL, NL>>
                          ELSE <<>>
                      body ==
                          IF Has(bf, "content") /\ Has(bf.content, "en-US")
                          THEN richTextToMarkdown(bf.content["en-US"])
                          ELSE Ok(<<>>)
                      hasBody == Has(bf, "content") /\ Has(bf.content, "en-US")
                  IN  IF ~body.ok THEN Throw
                      ELSE Ok(heading \o
                              (IF hasBody THEN body.s \o <<NL, NL>> ELSE <<>>))
             ELSE Ok(<<>>)

Event(op) == [op |-> op, page |-> index, ref |-> refIdx]

\* End of one forEach callback: the next page, or the summary.
NextPage ==
    /\ index' = index + 1
    /\ refIdx' = 0
    /\ markdown' = <<>>
    /\ pc' = IF index + 1 < Len(pages) THEN "page" ELSE "summary"

\* Mutant of CatchError: the error is reported and the batch is abandoned.
CatchErrorAbort(message) ==
    /\ log' = Append(log, [type |-> "error", index |-> index, message |-> message])
    /\ events' = Append(events, Event("error"))
    /\ UNCHANGED <<files, writes>>
    /\ index' = index + 1
    /\ refIdx' = 0
    /\ markdown' = <<>>
    /\ pc' = "summary"

\* Mutant of CatchError: the failure is swallowed without a console line.
CatchErrorSilent(message) ==
    /\ events' = Append(events, Event("error"))
    /\ UNCHANGED <<files, writes, log>>
    /\ NextPage

\* The catch clause (lines 163-165), then the next page.
CatchError(message) ==
    /\ log' = Append(log, [type |-> "error", index |-> index, message |-> message])
    /\ events' = Append(events, Event("error"))
    /\ UNCHANGED <<files, writes>>
    /\ NextPage

Init ==
    /\ data \in Snapshots
    /\ fsDirs \in {{}, {MdxA}}
    /\ pc = "start"
    /\ pages = <<>>
    /\ index = 0
    /\ refIdx = 0
    /\ markdown = <<>>
    /\ files = <<>>
    /\ log = <<>>
    /\ writes = <<>>
    /\ events = <<>>
    /\ node = Null
    /\ out = Pending
    /\ top = Pending

\* Lines 111-113: the pages are selected and their number is announced.
FindPages ==
    /\ pc = "start"
    /\ pages' = SelectSeq(data.entries, LAMBDA e : e.sys.contentType.sys.id = "page")
    /\ log' = Append(log, [type |-> "found", n |-> Len(pages')])
    /\ pc' = IF Len(pages') > 0 THEN "page" ELSE "summary"
    /\ UNCHANGED <<data, fsDirs, index, refIdx, markdown, files, writes, events,
                   node, out, top>>

\* Lines 116-135: title, description, front matter and heading of one page.
BeginPage ==
    /\ pc = "page"
    /\ IF ~Has(CurPage, "fields")
       THEN CatchError("TypeError")
       ELSE /\ markdown' = pageHeader(PageTitle(CurPage), PageDescription(CurPage))
            /\ refIdx' = 0
            /\ pc' = "refs"
            /\ events' = Append(events, Event("begin"))
            /\ UNCHANGED <<index, files, log, writes>>
    /\ UNCHANGED <<data, fsDirs, pages, node, out, top>>

\* Mutant of ProcessRef: the file is rewritten after every block.
ProcessRefFlushing ==
    /\ pc = "refs"
    /\ refIdx < Len(ContentRefs(CurPage))
    /\ LET section == blockSection(ContentRefs(CurPage)[refIdx + 1])
           filename == makeFilename(PageTitle(CurPage))
       IN  IF ~section.ok
           THEN CatchError("TypeError")
           ELSE /\ markdown' = markdown \o section.s
                /\ refIdx' = refIdx + 1
                /\ events' = Append(events, Event("ref"))
                /\ files' = [f \in DOMAIN files \cup {filename} |->
                                IF f = filename THEN markdown' ELSE files[f]]
                /\ writes' = Append(writes, [index |-> index, filename |-> filename,
                                             content |-> markdown'])
                /\ UNCHANGED <<pc, index, log>>
    /\ UNCHANGED <<data, fsDirs, pages, node, out, top>>

\* Mutant of ProcessRef: the section is put before the text assembled so far.
ProcessRefPrepend ==
    /\ pc = "refs"
    /\ refIdx < Len(ContentRefs(CurPage))
    /\ LET section == blockSection(ContentRefs(CurPage)[refIdx + 1])
       IN  IF ~section.ok
           THEN CatchError("TypeError")
           ELSE /\ markdown' = section.s \o markdown
                /\ refIdx' = refIdx + 1
                /\ events' = Append(events, Event("ref"))
                /\ UNCHANGED <<pc, index, files, log, writes>>
    /\ UNCHANGED <<data, fsDirs, pages, node, out, top>>

\* Lines 137-150: one iteration of contentRefs.forEach.
ProcessRef ==
    /\ pc = "refs"
    /\ refIdx < Len(ContentRefs(CurPage))
    /\ LET section == blockSection(ContentRefs(CurPage)[refIdx + 1])
       IN  IF ~section.ok
           THEN CatchError("TypeError")
           ELSE /\ markdown' = markdown \o section.s
                /\ refIdx' = refIdx + 1
                /\ events' = Append(events, Event("ref"))
                /\ UNCHANGED <<pc, index, files, log, writes>>
    /\ UNCHANGED <<data, fsDirs, pages, node, out, top>>

\* Lines 153-161: the filename, the write and the success line.
WritePage ==
    /\ pc = "refs"
    /\ refIdx = Len(ContentRefs(CurPage))
    /\ LET title == PageTitle(CurPage)
           filename == makeFilename(title)
       IN  IF ~TitleDefined(CurPage)
           THEN CatchError("TypeError")
           ELSE IF filename \in fsDirs
           THEN CatchError("EISDIR")
           ELSE /\ files' = [f \in DOMAIN files \cup {filename} |->
                                IF f = filename THEN markdown ELSE files[f]]
                /\ writes' = Append(writes, [index |-> index, filename |-> filename,
                                             content |-> markdown])
                /\ log' = Append(log, [type |-> "converted", title |-> title,
                                       filename |-> filename])
                /\ events' = Append(events, Event("write"))
                /\ NextPage
    /\ UNCHANGED <<data, fsDirs, pages, node, out, top>>

\* Line 168: the final summary.
Summary ==
    /\ pc = "summary"
    /\ log' = Append(log, [type |-> "done", n |-> Len(pages)])
    /\ pc' = "done"
    /\ UNCHANGED <<data, fsDirs, pages, index, refIdx, markdown, files, writes,
                   events, node, out, top>>

Next == FindPages \/ BeginPage \/ ProcessRef \/ WritePage \/ Summary

Spec == Init /\ [][Next]_vars

---------------------------------------------------------------------------
(* Properties of the renderer, checked under RenderSpec. *)

IsKind(n, k) == ~IsNull(n) /\ n.nodeType = k

Rendered(k) == pc = "rendered" /\ IsKind(node, k)

\* The marks of a text node that are bold or code, in the listed order.
KnownMarks(n) ==
    IF Has(n, "marks")
    THEN [i \in 1..Len(SelectSeq(n.marks, LAMBDA m : m.type \in {"bold", "code"}))
            |-> SelectSeq(n.marks, LAMBDA m : m.type \in {"bold", "code"})[i].type]
    ELSE <<>>

Bold(s) == <<"*", "*">> \o s \o <<"*", "*">>

Code(s) == <<BT>> \o s \o <<BT>>

\* C4 as stated: a text node with value v renders as **v** for marks [bold],
\* as BT v BT for marks [code], and as ** BT v BT ** (bold outermost) for
\* marks [bold, code]; marks of any other type leave the text unchanged.
C4_MarksBoldOutermost ==
    Rendered("text") =>
        /\ out.ok
        /\ KnownMarks(node) = <<>> => out.s = node.value
        /\ KnownMarks(node) = <<"bold">> => out.s = Bold(node.value)
        /\ KnownMarks(node) = <<"code">> => out.s = Code(node.value)
        /\ KnownMarks(node) = <<"bold", "code">> => out.s = Bold(Code(node.value))

\* C4 as amended: the same, except that marks [bold, code] in that order
\* render as BT ** v ** BT: each mark wraps the result of the marks before
\* it, so the code backticks are outermost and the bold markers innermost.
C4_MarksListedOrder ==
    Rendered("text") =>
        /\ out.ok
        /\ KnownMarks(node) = <<>> => out.s = node.value
        /\ KnownMarks(node) = <<"bold">> => out.s = Bold(node.value)
        /\ KnownMarks(node) = <<"code">> => out.s = Code(node.value)
        /\ KnownMarks(node) = <<"bold", "code">> => out.s = Code(Bold(node.value))

C4_Witness ==
    /\ Rendered("text")
    /\ Has(node, "marks")
    /\ node.marks = <<Mark("bold"), Mark("code")>>
    /\ node.value = <<"v">>
    /\ out = Ok(<<BT, "*", "*", "v", "*", "*", BT>>)

\* The lines of a newline-terminated text, without their terminators.
RECURSIVE SplitLines(_, _)
SplitLines(s, cur) ==
    IF Len(s) = 0 THEN <<>>
    ELSE IF s[1] = NL THEN <<cur>> \o SplitLines(Tail(s), <<>>)
    ELSE SplitLines(Tail(s), cur \o <<s[1]>>)

\* '|' followed by ' c |' for each cell text c ('|  |' when there is none).
RECURSIVE PipeCells(_)
PipeCells(cells) ==
    IF Len(cells) = 0 THEN <<>>
    ELSE <<" ">> \o cells[1] \o <<" ", "|">> \o PipeCells(Tail(cells))

PipeLine(cells) ==
    IF Len(cells) = 0 THEN <<"|", " ", " ", "|">> ELSE <<"|">> \o PipeCells(cells)

\* The table text inside the blank lines that processNode puts around it.
TableBody(s) == SubSeq(s, 3, Len(s) - 2)

\* The trimmed text of a cell of the tables rendered here.
TrimmedCell(cell) == IF cell = CellPadded THEN <<"a">> ELSE <<"c", NL, "d">>

RowCells(row) == [i \in 1..Len(row.content) |-> TrimmedCell(row.content[i])]

\* C5: a table with n >= 1 rows renders as exactly n + 1 newline-terminated
\* lines: the line of row 0, one separator line with as many '---' columns as
\* row 0 has cells, then the lines of rows 1..n-1 in order.
C5_TableLines ==
    (Rendered("table") /\ out.ok /\ Len(node.content) >= 1) =>
        LET body == TableBody(out.s)
            n == Len(node.content)
            lines == SplitLines(body, <<>>)
            k == Len(node.content[1].content)
        IN  /\ body[Len(body)] = NL
            /\ countChar(body, NL) = n + 1
            /\ Len(lines) = n + 1
            /\ lines[1] = PipeLine(RowCells(node.content[1]))
            /\ lines[2] = PipeLine([i \in 1..k |-> <<"-", "-", "-">>])
            /\ \A i \in 2..n : lines[i + 1] = PipeLine(RowCells(node.content[i]))

\* The asset an id resolves to: the indices of the assets with that id.
AssetIdxs(id) == {i \in 1..Len(data.assets) : data.assets[i].sys.id = id}

FirstIdx(S) == CHOOSE i \in S : \A j \in S : i <= j

ImageTag(title, url) ==
    <<NL, NL, "!", "[">> \o title \o <<"]", "(">> \o url \o <<")", NL, NL>>

\* C7: an embedded-asset-block whose asset id is not in the snapshot, or whose
\* asset has no file, renders as the empty string without raising; an image
\* tag is emitted only for an asset found with a file, with 'https:' put
\* before a URL that starts with '//', any other URL unchanged, and the
\* title defaulting to the empty string.
C7_EmbeddedAsset ==
    Rendered("embedded-asset-block") =>
        LET idxs == AssetIdxs(node.data.target.sys.id)
            asset == data.assets[FirstIdx(idxs)]
            hasFile == idxs # {} /\ Has(asset.fields, "file")
            url == asset.fields.file["en-US"].url
            title == IF Has(asset.fields, "title") THEN AssetTitle ELSE <<>>
            full == IF SubSeq(url, 1, 2) = <<"/", "/">>
                    THEN <<"h", "t", "t", "p", "s", ":">> \o url ELSE url
        IN  /\ ~hasFile => out = Ok(<<>>)
            /\ (out.ok /\ out.s # <<>>) => hasFile
            /\ (hasFile /\ Has(asset.fields.file, "en-US")) =>
                   out = Ok(ImageTag(title, full))

C7_Witness ==
    /\ Rendered("embedded-asset-block")
    /\ Len(data.assets) = 2
    /\ data.assets[1].sys.id # node.data.target.sys.id
    /\ out = Ok(ImageTag(<<>>, <<"h", "t", "t", "p", "s", ":">> \o UrlRelative))

\* C8: render returns a string and never raises, for every node tree; an
\* absent node and a document without content render as the empty string, a
\* node of an unrecognized kind renders as its children concatenated or as
\* the empty string, and a container of an enumerated kind that lacks its
\* child sequence does not make render fail.
C8_NeverRaises ==
    (pc = "rendered" /\ data.assets = FixedAssets) =>
        /\ out.ok
        /\ top.ok
        /\ IsNull(node) => out.s = <<>>
        /\ (IsKind(node, "document") /\ ~Has(node, "content")) => out.s = <<>>
        /\ (IsKind(node, "document") /\ Has(node, "content") /\ node.content = <<>>)
               => out.s = <<>>
        /\ (IsKind(node, "hr") \/ IsKind(node, "blockquote")) =>
               out.s = (IF Has(node, "content")
                        THEN join([i \in 1..Len(node.content) |->
                                      processNode(node.content[i]).s], <<>>)
                        ELSE <<>>)

---------------------------------------------------------------------------
(* Properties of the page loop, checked under Spec. *)

PageIdxs == 0..(Len(pages) - 1)

\* The forEach callback of page i has returned.
Finished(i) == i < index

WritesOf(i) == SelectSeq(writes, LAMBDA w : w.index = i)

ErrorsOf(i) == SelectSeq(log, LAMBDA l : l.type = "error" /\ l.index = i)

Converted == SelectSeq(log, LAMBDA l : l.type = "converted")

Errors == SelectSeq(log, LAMBDA l : l.type = "error")

RECURSIVE Sections(_)
Sections(refs) ==
    IF Len(refs) = 0 THEN <<>>
    ELSE blockSection(refs[1]).s \o Sections(Tail(refs))

\* What a page converts to when it is converted alone.
AssemblyOk(page) ==
    /\ Has(page, "fields")
    /\ \A j \in 1..Len(ContentRefs(page)) : blockSection(ContentRefs(page)[j]).ok

ConversionOk(page) ==
    /\ AssemblyOk(page)
    /\ TitleDefined(page)
    /\ makeFilename(PageTitle(page)) \notin fsDirs

Document(page) ==
    pageHeader(PageTitle(page), PageDescription(page)) \o Sections(ContentRefs(page))

\* C1: a page whose conversion throws is skipped and reported with its index,
\* and every other page, before or after it, is converted exactly as it is
\* when converted alone; once the run is done every page has been attempted.
C1_PerPageIsolation ==
    /\ pc = "done" => index = Len(pages)
    /\ \A i \in PageIdxs :
          Finished(i) =>
              IF ConversionOk(pages[i + 1])
              THEN /\ Len(WritesOf(i)) = 1
                   /\ WritesOf(i)[1].filename = makeFilename(PageTitle(pages[i + 1]))
                   /\ WritesOf(i)[1].content = Document(pages[i + 1])
                   /\ Len(ErrorsOf(i)) = 0
              ELSE /\ Len(WritesOf(i)) = 0
                   /\ Len(ErrorsOf(i)) = 1

\* A failed page between the start and a converted page.
C1_Witness ==
    /\ pc = "done"
    /\ Len(pages) = 2
    /\ ~ConversionOk(pages[1])
    /\ Len(ErrorsOf(0)) = 1
    /\ Len(WritesOf(1)) = 1

\* C2: after all pages have been attempted, the output directory holds as
\* many files as pages were converted, each holding its own page's content.
C2_OneFilePerPage ==
    pc = "done" =>
        /\ Cardinality(DOMAIN files) = Len(writes)
        /\ \A k \in 1..Len(writes) : files[writes[k].filename] = writes[k].content

\* Positions in events of the steps of page i with operation op.
EventIdxs(op, i) == {k \in 1..Len(events) : events[k].op = op /\ events[k].page = i}

\* C3: every file holds the complete document of a converted page; a write
\* happens only after every content reference of its page was assembled;
\* and a page whose assembly fails leaves no file and changes no file.
C3_NoPartialFile ==
    /\ \A f \in DOMAIN files :
          \E k \in 1..Len(writes) :
              /\ writes[k].filename = f
              /\ writes[k].content = files[f]
              /\ \A l \in (k + 1)..Len(writes) : writes[l].filename # f
    /\ \A k \in 1..Len(writes) :
          LET page == pages[writes[k].index + 1]
          IN  /\ AssemblyOk(page)
              /\ writes[k].content = Document(page)
              /\ \A w \in EventIdxs("write", writes[k].index) :
                    \A j \in 0..(Len(ContentRefs(page)) - 1) :
                        \E e \in EventIdxs("ref", writes[k].index) :
                            e < w /\ events[e].ref = j
    /\ \A i \in PageIdxs :
          /\ (Finished(i) /\ ~AssemblyOk(pages[i + 1])) => Len(WritesOf(i)) = 0
          /\ (~Finished(i)) => Len(WritesOf(i)) = 0

\* A page that failed at its second block, after the first was assembled.
C3_Witness ==
    /\ pc = "done"
    /\ Len(pages) = 1
    /\ Has(pages[1], "fields")
    /\ Len(ContentRefs(pages[1])) = 2
    /\ blockSection(ContentRefs(pages[1])[1]).ok
    /\ Len(blockSection(ContentRefs(pages[1])[1]).s) > 0
    /\ ~blockSection(ContentRefs(pages[1])[2]).ok
    /\ ~AssemblyOk(pages[1])
    /\ EventIdxs("ref", 0) # {}
    /\ EventIdxs("error", 0) # {}
    /\ files = <<>>

\* A reference whose id matches no entry of the snapshot.
Missing(ref) ==
    Has(ref, "sys") /\ \A k \in 1..Len(data.entries) : data.entries[k].sys.id # ref.sys.id

\* C6: a reference to a missing entry contributes nothing to its page and
\* raises no error: the page is converted as if the reference were not
\* there, and a page whose references are all missing yields a file with
\* the front matter, the title heading and the description only.
C6_MissingReference ==
    \A i \in PageIdxs :
        (/\ Finished(i)
         /\ Has(pages[i + 1], "fields")
         /\ \E j \in 1..Len(ContentRefs(pages[i + 1])) :
               Missing(ContentRefs(pages[i + 1])[j])) =>
            LET page == pages[i + 1]
                kept == SelectSeq(ContentRefs(page), LAMBDA r : ~Missing(r))
                rest == \A j \in 1..Len(kept) : blockSection(kept[j]).ok
                header == pageHeader(PageTitle(page), PageDescription(page))
            IN  IF rest /\ TitleDefined(page) /\ makeFilename(PageTitle(page)) \notin fsDirs
                THEN /\ Len(ErrorsOf(i)) = 0
                     /\ Len(WritesOf(i)) = 1
                     /\ WritesOf(i)[1].content = header \o Sections(kept)
                     /\ kept = <<>> => WritesOf(i)[1].content = header
                ELSE Len(WritesOf(i)) = 0

\* A written page with a description, all of whose references are missing.
C6_Witness ==
    /\ pc = "done"
    /\ Len(pages) = 1
    /\ Has(pages[1], "fields")
    /\ ContentRefs(pages[1]) = <<Ref("zz"), Ref("zz")>>
    /\ Len(writes) = 1
    /\ writes[1].content = pageHeader(<<"A">>, Description)
    /\ files[MdxA] = writes[1].content

\* The section of a resolved block: its level-3 title heading, if it has a
\* title, immediately followed by its rendered body, if it has content.
ExpectedSection(ref) ==
    LET block == findEntry(ref.sys.id)
        resolved == ~IsNull(block) /\ Has(block, "fields")
    IN  IF ~resolved THEN <<>>
        ELSE (IF Has(block.fields, "title")
              THEN <<"#", "#", "#", " ">> \o block.fields.title["en-US"] \o <<NL, NL>>
              ELSE <<>>)
             \o (IF Has(block.fields, "content")
                 THEN richTextToMarkdown(block.fields.content["en-US"]).s \o <<NL, NL>>
                 ELSE <<>>)

RECURSIVE ExpectedSections(_)
ExpectedSections(refs) ==
    IF Len(refs) = 0 THEN <<>>
    ELSE ExpectedSection(refs[1]) \o ExpectedSections(Tail(refs))

\* C9: pages are processed one at a time in snapshot order, each reaching
\* its outcome (write or error) before any step of the next; within a page
\* the references are processed in order and the written sections follow
\* the order of the references, each title heading right before its body.
C9_SequentialOrder ==
    /\ \A k \in 1..(Len(events) - 1) :
          LET e == events[k]
              f == events[k + 1]
          IN  IF e.op \in {"write", "error"}
              THEN f.page = e.page + 1
              ELSE /\ f.page = e.page
                   /\ f.op # "begin"
                   /\ f.op = "ref" => f.ref = (IF e.op = "begin" THEN 0 ELSE e.ref + 1)
    /\ Len(events) > 0 => events[1].page = 0
    /\ \A k \in 1..Len(writes) :
          LET page == pages[writes[k].index + 1]
          IN  writes[k].content =
                  pageHeader(PageTitle(page), PageDescription(page))
                      \o ExpectedSections(ContentRefs(page))
    /\ \A k \in 1..(Len(writes) - 1) : writes[k].index < writes[k + 1].index

\* A written page with two distinct resolved blocks.
C9_Witness ==
    /\ pc = "done"
    /\ Len(pages) = 1
    /\ Has(pages[1], "fields")
    /\ ContentRefs(pages[1]) = <<Ref("b2"), Ref("b1")>>
    /\ Len(writes) = 1

ReportInv ==
    /\ Len(log) > 0 => log[1] = [type |-> "found", n |-> Len(pages)]
    /\ Len(Converted) = Len(writes)
    /\ \A k \in 1..Len(writes) : Converted[k].filename = writes[k].filename
    /\ \A i \in PageIdxs :
          /\ Finished(i) => Len(WritesOf(i)) + Len(ErrorsOf(i)) = 1
          /\ ~Finished(i) => Len(WritesOf(i)) + Len(ErrorsOf(i)) = 0
    /\ Len(Converted) + Len(Errors) = index
    /\ pc = "done" =>
          /\ Len(Converted) + Len(Errors) = log[1].n
          /\ log[Len(log)] = [type |-> "done", n |-> Len(pages)]
          /\ Len(log) = Len(pages) + 2

\* Console lines and steps taken so far: every step adds to it.
Progress == Len(log) + Len(events)

\* Before the summary the script is at a position it proceeds from: the
\* selection of the pages, a page of the list, a reference of that page or
\* the end of its references, or the summary line.
CanProceed ==
    \/ pc \in {"start", "summary", "done"}
    \/ pc = "page" /\ index < Len(pages)
    \/ pc = "refs" /\ index < Len(pages) /\ refIdx <= Len(ContentRefs(CurPage))

\* C10: the run always reaches the final summary after attempting every
\* page (the script is never stuck before the summary, and every step makes
\* progress); each page produces exactly one report line, a success line if
\* and only if its file was written, so success lines plus error lines
\* equal the number of pages announced.
C10_ReportingAndCompletion ==
    /\ [](ReportInv /\ CanProceed)
    /\ [][Progress' > Progress]_vars

\* A finished run with a success line and an error line.
C10_Witness ==
    /\ pc = "done"
    /\ Len(Converted) = 1
    /\ Len(Errors) = 1

===========================================================================
